---------------------------- MODULE Spec2Model ----------------------------
(***************************************************************************)
(* Circuit breaker of github.com/OZahed/bob (package circuitbreaker).      *)
(*                                                                         *)
(* The breaker is one record, cb, holding the fields of the Go struct.     *)
(* Goroutines call the exported methods; sync.RWMutex is modelled with its *)
(* Go semantics (not reentrant, a pending writer blocks new readers).      *)
(* float64 values are exact rationals [n, d]; d = 0 encodes NaN (0/0) and  *)
(* +-Inf.  Percentages are kept in hundredths, time in whole seconds.      *)
(***************************************************************************)
EXTENDS Integers, Sequences, FiniteSets, TLC

VARIABLES cb, mu, pc, frame, ev, now, alive

vars == <<cb, mu, pc, frame, ev, now, alive>>

(***************************************************************************)
(* Bounds of the model.                                                    *)
(***************************************************************************)
NProcs == 2
MaxTicks == 1
WindowInSeconds == 1
BucketPerSecond == 2
StateStepInterval == 2
MaxRequests == 10
MaxOnFlight == 3

Procs == 1..NProcs
UnitProcs == {1}

(***************************************************************************)
(* Program constants.                                                      *)
(***************************************************************************)
Closed == 0
Open == 1
HalfOpen == 2
States == {Closed, Open, HalfOpen}

\* time.Time{} : the zero time, tested by IsZero
ZeroTime == 0

\* DefaultHalfOpenPercentages, in hundredths
DefaultHalfOpenPercentages == <<10, 30, 50, 75, 100>>

\* DefaultInterMediatoryStateChangeInterval = time.Second * 1
DefaultInterMediatoryStateChangeInterval == 1

\* floatOne = 1.0, in hundredths
floatOne == 100

\* the threshold argument of NewCircuitBreaker used throughout: 0.5
Threshold == [n |-> 1, d |-> 2]

\* The clock starts late enough for every interval of the model to have elapsed.
StartTime == 2 + Len(DefaultHalfOpenPercentages) * DefaultInterMediatoryStateChangeInterval
                + StateStepInterval

MaxTime == StartTime + MaxTicks

\* time.Since saturates at the largest Duration when the argument is the zero time
MaxDuration == MaxTime + StateStepInterval + DefaultInterMediatoryStateChangeInterval + 1

(***************************************************************************)
(* float64 arithmetic on the values the breaker computes.                  *)
(***************************************************************************)
Ratio(f, r) == [n |-> f, d |-> r]

IsNaN(a) == a.d = 0 /\ a.n = 0

Norm(a) == IF a.d < 0 THEN [n |-> 0 - a.n, d |-> 0 - a.d] ELSE a

\* a < b on float64: false when either side is NaN
FLess(a, b) ==
    LET x == Norm(a)
        y == Norm(b)
    IN  IF IsNaN(x) \/ IsNaN(y) THEN FALSE
        ELSE IF x.d = 0 THEN x.n < 0 /\ ~(y.d = 0 /\ y.n < 0)
        ELSE IF y.d = 0 THEN y.n > 0
        ELSE x.n * y.d < y.n * x.d

\* a >= b on float64
FGeq(a, b) ==
    LET x == Norm(a)
        y == Norm(b)
    IN  IF IsNaN(x) \/ IsNaN(y) THEN FALSE ELSE ~FLess(x, y)

FOne == [n |-> 1, d |-> 1]
FZero == [n |-> 0, d |-> 1]
FNaN == [n |-> 0, d |-> 0]

Abs(x) == IF x < 0 THEN 0 - x ELSE x


(***************************************************************************)
(* The structs.                                                            *)
(***************************************************************************)
EmptyBucket == [requests |-> 0, failures |-> 0]

\* the zero value of halfOpenInfo (what a freshly allocated one holds)
ZeroHalfOpenInfo ==
    [LastHalfOpenRequest |-> ZeroTime,
     HalfOpenStages |-> << >>,
     HalfOpenSubStateChangeInterval |-> 0,
     CurrentPercentage |-> 0,
     OnFlightRequest |-> 0,
     MaxRequest |-> 0]

\* NewCircuitBreaker: every field it does not name keeps its zero value; in
\* particular halfOpenInfo is a nil pointer and changeBucketDuration is 0.
NewCircuitBreaker(windowInSeconds, bucketsPerSecond, threshold, stateStepInterval) ==
    [lastStateChange |-> ZeroTime,
     lastBucketTime |-> ZeroTime,
     halfOpenNil |-> TRUE,
     halfOpenInfo |-> ZeroHalfOpenInfo,
     buckets |-> [i \in 0..(windowInSeconds * bucketsPerSecond - 1) |-> EmptyBucket],
     lastIndex |-> 0,
     changeBucketDuration |-> 0,
     currentRate |-> FZero,
     stateStepInterval |-> stateStepInterval,
     threshold |-> threshold,
     windowInSeconds |-> windowInSeconds,
     bucketPerSecond |-> bucketsPerSecond,
     totalRequests |-> 0,
     totalFailures |-> 0,
     currentState |-> Closed]

\* time.Since(t) read at clock value n
Since(t, n) == IF t = ZeroTime THEN MaxDuration ELSE n - t

(***************************************************************************)
(* Methods that take no lock, as functions of the struct.                  *)
(***************************************************************************)
\* halfOpenInfo.NextStep: the loop ranges over DefaultHalfOpenPercentages and
\* indexes h.HalfOpenStages; 0 when nothing matches; an index past the end of
\* HalfOpenStages is a run-time panic.
NextStep(h) ==
    LET hits == {i \in 1..Len(DefaultHalfOpenPercentages) :
                     h.CurrentPercentage = DefaultHalfOpenPercentages[i]}
    IN  IF hits = {} THEN [val |-> 0, panic |-> FALSE]
        ELSE LET idx == CHOOSE i \in hits : \A j \in hits : i <= j
             IN  IF idx = Len(h.HalfOpenStages)
                 THEN [val |-> floatOne, panic |-> FALSE]
                 ELSE IF idx + 1 > Len(h.HalfOpenStages)
                 THEN [val |-> 0, panic |-> TRUE]
                 ELSE [val |-> h.HalfOpenStages[idx + 1], panic |-> FALSE]

\* halfOpenInfo.ZeroState
HalfOpenInfoZeroState(h) ==
    LET h1 == IF h.HalfOpenSubStateChangeInterval <= 0
              THEN [h EXCEPT !.HalfOpenSubStateChangeInterval =
                                 DefaultInterMediatoryStateChangeInterval]
              ELSE h
        h2 == IF Len(h1.HalfOpenStages) = 0
              THEN [h1 EXCEPT !.HalfOpenStages = DefaultHalfOpenPercentages]
              ELSE h1
    IN  [h2 EXCEPT !.LastHalfOpenRequest = ZeroTime,
                   !.OnFlightRequest = 0,
                   !.CurrentPercentage = h2.HalfOpenStages[1]]


\* updateStats that leaves currentRate as it was
updateStatsStale(c) == c

\* CircuitBreaker.updateStats
updateStats(c) ==
    [c EXCEPT !.currentRate = Ratio(c.totalFailures, c.totalRequests)]

\* closedAllow with the comparison turned around
closedAllowReversed(c) == FLess(c.threshold, c.currentRate)

\* CircuitBreaker.closedAllow
closedAllow(c) == FLess(c.currentRate, c.threshold)



\* ZeroState that leaves the buckets and the totals as they are
ZeroStateBodyKeepsWindow(c) ==
    LET c1 == [c EXCEPT !.lastBucketTime = ZeroTime]
    IN  IF c1.halfOpenNil
        THEN [cb |-> c1, st |-> "panic"]
        ELSE [cb |-> [c1 EXCEPT !.halfOpenInfo = HalfOpenInfoZeroState(c1.halfOpenInfo),
                                !.lastIndex = 0,
                                !.currentRate = FOne],
              st |-> "ok"]

\* The statements of CircuitBreaker.ZeroState between Lock and Unlock.
\* st = "panic": the nil halfOpenInfo is dereferenced after lastBucketTime was reset.
ZeroStateBody(c) ==
    LET c1 == [c EXCEPT !.lastBucketTime = ZeroTime]
    IN  IF c1.halfOpenNil
        THEN [cb |-> c1, st |-> "panic"]
        ELSE [cb |-> [c1 EXCEPT !.halfOpenInfo = HalfOpenInfoZeroState(c1.halfOpenInfo),
                                !.buckets = [i \in DOMAIN c1.buckets |-> EmptyBucket],
                                !.lastIndex = 0,
                                !.currentRate = FOne,
                                !.totalFailures = 0,
                                !.totalRequests = 0],
              st |-> "ok"]

\* The statements of CircuitBreaker.setState after ZeroState has returned.
setStateTail(c, state, n) ==
    [c EXCEPT !.lastStateChange = n, !.currentState = state]

NoState == 0 - 1

\* CircuitBreaker.checkHalfOpenState up to its call of setState.
\* target = Closed: setState(Closed) is called next; NoState: it returns.
checkHalfOpenState(c, n) ==
    IF c.halfOpenNil THEN [cb |-> c, target |-> NoState, st |-> "panic"]
    ELSE
    LET h == c.halfOpenInfo
        advance == Since(h.LastHalfOpenRequest, n) >= h.HalfOpenSubStateChangeInterval
                   /\ FLess([n |-> 9, d |-> 10], Ratio(c.totalFailures, c.totalRequests))
        nx == NextStep(h)
    IN  IF advance /\ nx.panic THEN [cb |-> c, target |-> NoState, st |-> "panic"]
        ELSE LET c1 == IF advance
                       THEN [c EXCEPT !.halfOpenInfo.CurrentPercentage = nx.val]
                       ELSE c
             IN  IF c1.halfOpenInfo.CurrentPercentage = 0
                 THEN [cb |-> c1, target |-> NoState, st |-> "ok"]
                 ELSE IF c1.halfOpenInfo.CurrentPercentage > 90
                 THEN [cb |-> c1, target |-> Closed, st |-> "ok"]
                 ELSE [cb |-> c1, target |-> NoState, st |-> "ok"]

\* StateEval that closes an Open breaker once stateStepInterval has elapsed
StateEvalClosesFromOpen(c, n) ==
    IF c.currentState = Open /\ Since(c.lastStateChange, n) > c.stateStepInterval
    THEN [cb |-> c, target |-> Closed, st |-> "ok"]
    ELSE [cb |-> c, target |-> NoState, st |-> "ok"]

\* CircuitBreaker.StateEval up to its call of setState.
StateEval(c, n) ==
    IF c.currentState = HalfOpen THEN checkHalfOpenState(c, n)
    ELSE IF c.currentState = Open
    THEN IF Since(c.lastStateChange, n) > c.stateStepInterval
         THEN [cb |-> c, target |-> HalfOpen, st |-> "ok"]
         ELSE [cb |-> c, target |-> NoState, st |-> "ok"]
    ELSE IF c.currentState = Closed
    THEN IF FLess(c.currentRate, c.threshold)
         THEN [cb |-> c, target |-> Closed, st |-> "ok"]
         ELSE [cb |-> c, target |-> NoState, st |-> "ok"]
    ELSE [cb |-> c, target |-> NoState, st |-> "ok"]

\* The statements of CircuitBreaker.halfOpenAllow after the state check:
\* allowedReqNumbers (hundredths) and the comparison with OnFlightRequest.
halfOpenAllowTail(c) ==
    LET h == c.halfOpenInfo
        raw == h.MaxRequest * h.CurrentPercentage
        allowedReqNumbers == IF raw < 100 THEN 100 ELSE raw
    IN  Abs(allowedReqNumbers - 100 * h.OnFlightRequest) < 1

\* CircuitBreaker.halfOpenAllow up to a call of setState inside checkHalfOpenState.
halfOpenAllow(c, n) ==
    IF c.halfOpenNil THEN [cb |-> c, target |-> NoState, st |-> "panic"]
    ELSE IF Since(c.halfOpenInfo.LastHalfOpenRequest, n)
              > c.halfOpenInfo.HalfOpenSubStateChangeInterval
    THEN checkHalfOpenState(c, n)
    ELSE [cb |-> c, target |-> NoState, st |-> "ok"]

\* getBucketIndex that moves to the next bucket and evicts nothing from the totals
getBucketIndexNoEviction(c, n) ==
    LET li == (c.lastIndex + 1) % Cardinality(DOMAIN c.buckets)
    IN  [cb |-> [c EXCEPT !.lastIndex = li,
                          !.buckets[li] = EmptyBucket,
                          !.lastBucketTime = n],
         idx |-> li]



\* getBucketIndex that subtracts the requests of the bucket it leaves from
\* the failures as well
getBucketIndexEvictsRequestsTwice(c, n) ==
    LET c1 == IF c.lastBucketTime = ZeroTime
              THEN [c EXCEPT !.lastBucketTime = n, !.buckets[c.lastIndex] = EmptyBucket]
              ELSE c
        outDatedBucket == c1.buckets[c1.lastIndex]
        li == (c1.lastIndex + 1) % Cardinality(DOMAIN c1.buckets)
    IN  [cb |-> updateStats([c1 EXCEPT !.totalRequests = @ - outDatedBucket.requests,
                                       !.totalFailures = @ - outDatedBucket.requests,
                                       !.lastIndex = li,
                                       !.buckets[li] = EmptyBucket,
                                       !.lastBucketTime = n]),
         idx |-> li]

\* CircuitBreaker.getBucketIndex
getBucketIndex(c, n) ==
    LET c1 == IF c.lastBucketTime = ZeroTime
              THEN [c EXCEPT !.lastBucketTime = n, !.buckets[c.lastIndex] = EmptyBucket]
              ELSE c
    IN  IF Since(c1.lastBucketTime, n) < c1.changeBucketDuration
        THEN [cb |-> c1, idx |-> c1.lastIndex]
        ELSE LET outDatedBucket == c1.buckets[c1.lastIndex]
                 li == (c1.lastIndex + 1) % Cardinality(DOMAIN c1.buckets)
                 c2 == [c1 EXCEPT !.totalRequests = @ - outDatedBucket.requests,
                                  !.totalFailures = @ - outDatedBucket.failures,
                                  !.lastIndex = li,
                                  !.buckets[li] = EmptyBucket,
                                  !.lastBucketTime = n]
                 c3 == updateStats(c2)
             IN  [cb |-> c3, idx |-> li]



\* the request counted twice
countRequestTwice(c, n) ==
    LET g == getBucketIndex(c, n)
    IN  [cb |-> [g.cb EXCEPT !.totalRequests = @ + 2,
                             !.buckets[g.idx].requests = @ + 2],
         idx |-> g.idx]

\* idx := cb.getBucketIndex(); cb.totalRequests++; cb.buckets[idx].requests++
countRequest(c, n) ==
    LET g == getBucketIndex(c, n)
    IN  [cb |-> [g.cb EXCEPT !.totalRequests = @ + 1,
                             !.buckets[g.idx].requests = @ + 1],
         idx |-> g.idx]

\* a failure counted twice
countFailureTwice(c, idx) ==
    [c EXCEPT !.totalFailures = @ + 2, !.buckets[idx].failures = @ + 2]

\* cb.totalFailures++; cb.buckets[idx].failures++
countFailure(c, idx) ==
    [c EXCEPT !.totalFailures = @ + 1, !.buckets[idx].failures = @ + 1]

\* The statements of CircuitBreaker.MakeRequest between Allow and the first
\* StateEval: the request is counted, f runs (err: it returned an error), the
\* failure is counted.
recordRequest(c, err, n) ==
    LET g == countRequest(c, n)
        c2 == IF err THEN countFailure(g.cb, g.idx) ELSE g.cb
    IN  updateStats(c2)


(***************************************************************************)
(* sync.RWMutex.  writer: the goroutine that passed the writers' mutex     *)
(* (0: none); granted: it also saw the readers leave; readers: holders of  *)
(* a read lock.  A goroutine that locks again what it holds waits forever. *)
(***************************************************************************)
MuFree == [writer |-> 0, granted |-> FALSE, readers |-> {}]

CanLock(m, p) == m.writer = 0

CanGrant(m, p) == m.writer = p /\ m.readers = {}

CanRLock(m, p) == m.writer = 0

Unlock(m, p) == [m EXCEPT !.writer = 0, !.granted = FALSE]

RUnlock(m, p) == [m EXCEPT !.readers = @ \ {p}]

(***************************************************************************)
(* Calls.  frame[p] is the call goroutine p is in: op the method it called,*)
(* fn the method whose Lock it is about to take, pre the struct at the     *)
(* call, err whether its f returns an error, target the state a pending    *)
(* setState was called with, tail whether halfOpenAllow still has to       *)
(* compute its result, idx the local idx of MakeRequest, calls how many    *)
(* times the call has invoked f.  ev is the last call that returned.       *)
(***************************************************************************)
NoFrame(c) ==
    [op |-> "none", fn |-> "none", pre |-> c, err |-> FALSE,
     target |-> NoState, tail |-> FALSE, idx |-> 0, calls |-> 0]

Frame(op, fn, c, err, target, tail) ==
    [op |-> op, fn |-> fn, pre |-> c, err |-> err,
     target |-> target, tail |-> tail, idx |-> 0, calls |-> 0]

Event(p, f, r) ==
    [by |-> p, op |-> f.op, pre |-> f.pre, err |-> f.err, ret |-> r,
     calls |-> f.calls]

\* f invoked twice where the code invokes it once
invokeTwice(f) == [f EXCEPT !.calls = @ + 2]

\* the error of f dropped where the code returns it
forwardNil(err) == "nil"

\* err := f()  : the call in frame f invokes the caller's function
invoke(f) == [f EXCEPT !.calls = @ + 1]

\* return err : what MakeRequest hands back when f returned an error (err) or nil
forward(err) == IF err THEN "err" ELSE "nil"

NewBreaker == NewCircuitBreaker(WindowInSeconds, BucketPerSecond, Threshold, StateStepInterval)

Init ==
    /\ cb = NewBreaker
    /\ mu = MuFree
    /\ pc = [p \in Procs |-> "idle"]
    /\ frame = [p \in Procs |-> NoFrame(NewBreaker)]
    /\ ev = Event(0, NoFrame(NewBreaker), "none")
    /\ now = StartTime
    /\ alive = TRUE

\* goroutine p returns r from the call in frame f
Return(p, f, r) ==
    /\ pc' = [pc EXCEPT ![p] = "idle"]
    /\ ev' = Event(p, f, r)
    /\ frame' = [frame EXCEPT ![p] = NoFrame(NewBreaker)]

\* goroutine p panics inside the call in frame f
Panic(p, f) ==
    /\ pc' = [pc EXCEPT ![p] = "panicked"]
    /\ frame' = [frame EXCEPT ![p] = f]
    /\ UNCHANGED ev

\* goroutine p reaches a Lock() or RLock() of the mutex
Block(p, f, at) ==
    /\ pc' = [pc EXCEPT ![p] = at]
    /\ frame' = [frame EXCEPT ![p] = f]
    /\ UNCHANGED ev

Bool(b) == IF b THEN "true" ELSE "false"

\* MakeRequest is called: cb.mu.Lock() comes first
CallMakeRequest(p) ==
    /\ alive /\ pc[p] = "idle"
    /\ \E err \in BOOLEAN :
         Block(p, Frame("MakeRequest", "MakeRequest", cb, err, NoState, FALSE), "Lock")
    /\ UNCHANGED <<cb, mu, now, alive>>

\* Allow is called: cb.mu.RLock() comes first
CallAllow(p) ==
    /\ alive /\ pc[p] = "idle"
    /\ Block(p, Frame("Allow", "Allow", cb, FALSE, NoState, FALSE), "RLock")
    /\ UNCHANGED <<cb, mu, now, alive>>

\* ZeroState is called: cb.mu.Lock() comes first
CallZeroState(p) ==
    /\ alive /\ pc[p] = "idle"
    /\ Block(p, Frame("ZeroState", "ZeroState", cb, FALSE, NoState, FALSE), "Lock")
    /\ UNCHANGED <<cb, mu, now, alive>>

\* StateEval is called: it takes no lock itself, setState -> ZeroState does
CallStateEval(p) ==
    /\ alive /\ pc[p] = "idle"
    /\ LET se == StateEval(cb, now)
           f == Frame("StateEval", "ZeroState", cb, FALSE, se.target, FALSE)
       IN  /\ cb' = se.cb
           /\ IF se.st = "panic" THEN Panic(p, f)
              ELSE IF se.target # NoState THEN Block(p, f, "Lock")
              ELSE Return(p, f, "void")
    /\ UNCHANGED <<mu, now, alive>>

\* rw.w.Lock() inside Lock(): one writer at a time, new readers are shut out
LockAnnounce(p) ==
    /\ alive /\ pc[p] = "Lock"
    /\ CanLock(mu, p)
    /\ mu' = [mu EXCEPT !.writer = p]
    /\ pc' = [pc EXCEPT ![p] = "LockWait"]
    /\ UNCHANGED <<cb, frame, ev, now, alive>>

\* Lock() returns once the readers have left.  In MakeRequest the next
\* statement that can block is the RLock() of Allow.
LockAcquire(p) ==
    /\ alive /\ pc[p] = "LockWait"
    /\ CanGrant(mu, p)
    /\ mu' = [mu EXCEPT !.granted = TRUE]
    /\ pc' = [pc EXCEPT ![p] = IF frame[p].fn = "MakeRequest" THEN "RLock"
                                ELSE IF frame[p].fn = "HandlerMakeRequest"
                                THEN "Admission"
                                ELSE "ZeroStateBody"]
    /\ UNCHANGED <<cb, frame, ev, now, alive>>

\* RLock() returns: no writer holds or waits for the mutex
RLock(p) ==
    /\ alive /\ pc[p] = "RLock"
    /\ CanRLock(mu, p)
    /\ mu' = [mu EXCEPT !.readers = @ \cup {p}]
    /\ pc' = [pc EXCEPT ![p] = IF frame[p].fn = "HandlerAllow"
                                THEN "HandlerAllowBody"
                                ELSE "AllowBody"]
    /\ UNCHANGED <<cb, frame, ev, now, alive>>


\* The switch of CircuitBreaker.Allow, between RLock and RUnlock.  val is the
\* result when no setState is pending (target = NoState) and nothing panicked.
Allow(c, n) ==
    IF c.currentState = Closed
    THEN [cb |-> c, target |-> NoState, st |-> "ok", val |-> closedAllow(c)]
    ELSE IF c.currentState = Open
    THEN [cb |-> c, target |-> NoState, st |-> "ok", val |-> FALSE]
    ELSE IF c.currentState = HalfOpen
    THEN LET h == halfOpenAllow(c, n)
         IN  [cb |-> h.cb, target |-> h.target, st |-> h.st,
              val |-> IF h.st = "ok" THEN halfOpenAllowTail(h.cb) ELSE FALSE]
    ELSE [cb |-> c, target |-> NoState, st |-> "ok", val |-> FALSE]

\* The statements of CircuitBreaker.MakeRequest after Allow has returned
\* `allowed`, the write lock held: the early return when dropped, else the
\* record, StateEval, and (both ways) the deferred StateEval.  A setState that
\* StateEval reaches leaves target # NoState: ZeroState's Lock() comes next.
MakeRequestTail(c, allowed, err, n) ==
    IF ~allowed
    THEN LET d == StateEval(c, n)
         IN  [cb |-> d.cb, target |-> d.target, st |-> d.st, ret |-> "ErrRequestDropped"]
    ELSE LET c1 == recordRequest(c, err, n)
             s1 == StateEval(c1, n)
             r == forward(err)
         IN  IF s1.st # "ok" \/ s1.target # NoState
             THEN [cb |-> s1.cb, target |-> s1.target, st |-> s1.st, ret |-> r]
             ELSE LET s2 == StateEval(s1.cb, n)
                  IN  [cb |-> s2.cb, target |-> s2.target, st |-> s2.st, ret |-> r]

\* Allow's body runs with the read lock held, then RUnlock.  Called from
\* MakeRequest, the rest of MakeRequest follows under the write lock.
AllowBody(p) ==
    /\ alive /\ pc[p] = "AllowBody"
    /\ LET a == Allow(cb, now)
           f == IF frame[p].op = "MakeRequest" /\ a.st = "ok"
                   /\ a.target = NoState /\ a.val
                THEN invoke(frame[p])
                ELSE frame[p]
       IN  IF a.st = "panic"
           THEN /\ cb' = a.cb
                /\ mu' = IF f.op = "MakeRequest" THEN Unlock(RUnlock(mu, p), p)
                         ELSE RUnlock(mu, p)
                /\ Panic(p, f)
           ELSE IF a.target # NoState
           THEN /\ cb' = a.cb
                /\ mu' = mu
                /\ Block(p, [f EXCEPT !.fn = "ZeroState", !.target = a.target,
                                      !.tail = TRUE], "Lock")
           ELSE IF f.op # "MakeRequest"
           THEN /\ cb' = a.cb
                /\ mu' = RUnlock(mu, p)
                /\ Return(p, f, Bool(a.val))
           ELSE LET t == MakeRequestTail(a.cb, a.val, f.err, now)
                IN  /\ cb' = t.cb
                    /\ IF t.st = "panic"
                       THEN /\ mu' = Unlock(RUnlock(mu, p), p)
                            /\ Panic(p, f)
                       ELSE IF t.target # NoState
                       THEN /\ mu' = RUnlock(mu, p)
                            /\ Block(p, [f EXCEPT !.fn = "ZeroState",
                                                  !.target = t.target], "Lock")
                       ELSE /\ mu' = Unlock(RUnlock(mu, p), p)
                            /\ Return(p, f, t.ret)
    /\ UNCHANGED <<now, alive>>

\* ZeroState's body runs with the write lock held, then the deferred Unlock;
\* when setState called it, setState's two assignments follow, and when
\* halfOpenAllow is underneath, its result.
ZeroStateRun(p) ==
    /\ alive /\ pc[p] = "ZeroStateBody"
    /\ LET z == ZeroStateBody(cb)
           f == frame[p]
       IN  IF z.st = "panic"
           THEN /\ cb' = z.cb
                /\ mu' = Unlock(mu, p)
                /\ Panic(p, f)
           ELSE LET c2 == IF f.target # NoState
                          THEN setStateTail(z.cb, f.target, now)
                          ELSE z.cb
                IN  /\ cb' = c2
                    /\ mu' = Unlock(mu, p)
                    /\ Return(p, f, IF f.tail THEN Bool(halfOpenAllowTail(c2))
                                    ELSE "void")
    /\ UNCHANGED <<now, alive>>

\* the caller recovers the panic and goes on
Recover(p) ==
    /\ alive /\ pc[p] = "panicked"
    /\ Return(p, frame[p], "panic")
    /\ UNCHANGED <<cb, mu, now, alive>>

\* nobody recovers it: the process dies
Crash(p) ==
    /\ alive /\ pc[p] = "panicked"
    /\ alive' = FALSE
    /\ UNCHANGED <<cb, mu, pc, frame, ev, now>>

\* the clock
Tick ==
    /\ alive /\ now < MaxTime
    /\ now' = now + 1
    /\ UNCHANGED <<cb, mu, pc, frame, ev, alive>>

Step(p) ==
    \/ CallMakeRequest(p)
    \/ CallAllow(p)
    \/ CallZeroState(p)
    \/ CallStateEval(p)
    \/ LockAnnounce(p)
    \/ LockAcquire(p)
    \/ RLock(p)
    \/ AllowBody(p)
    \/ ZeroStateRun(p)
    \/ Recover(p)
    \/ Crash(p)

Next == (\E p \in Procs : Step(p)) \/ Tick

Spec == Init /\ [][Next]_vars

\* every goroutine that can run does run
FairSpec == Spec /\ \A p \in Procs : WF_vars(Step(p))


(***************************************************************************)
(* The unexported methods, called one at a time by code of the package     *)
(* itself (a test of the package) on a breaker whose fields it has set:    *)
(* halfOpenInfo allocated, any of the three states, any counts.  Each      *)
(* method is called in the state its call sites in the package call it in: *)
(* closedAllow in Closed (Allow, case Closed), halfOpenAllow and           *)
(* checkHalfOpenState in HalfOpen (Allow and StateEval, case HalfOpen).    *)
(***************************************************************************)
\* closedAllow is called
CallClosedAllow(p) ==
    /\ alive /\ pc[p] = "idle"
    /\ cb.currentState = Closed
    /\ Return(p, Frame("closedAllow", "none", cb, FALSE, NoState, FALSE),
              Bool(closedAllow(cb)))
    /\ UNCHANGED <<cb, mu, now, alive>>

\* halfOpenAllow is called
CallHalfOpenAllow(p) ==
    /\ alive /\ pc[p] = "idle"
    /\ cb.currentState = HalfOpen
    /\ LET h == halfOpenAllow(cb, now)
           f == Frame("halfOpenAllow", "ZeroState", cb, FALSE, h.target, TRUE)
       IN  /\ cb' = h.cb
           /\ IF h.st = "panic" THEN Panic(p, f)
              ELSE IF h.target # NoState THEN Block(p, f, "Lock")
              ELSE Return(p, f, Bool(halfOpenAllowTail(h.cb)))
    /\ UNCHANGED <<mu, now, alive>>

\* checkHalfOpenState is called
CallCheckHalfOpenState(p) ==
    /\ alive /\ pc[p] = "idle"
    /\ cb.currentState = HalfOpen
    /\ LET h == checkHalfOpenState(cb, now)
           f == Frame("checkHalfOpenState", "ZeroState", cb, FALSE, h.target, FALSE)
       IN  /\ cb' = h.cb
           /\ IF h.st = "panic" THEN Panic(p, f)
              ELSE IF h.target # NoState THEN Block(p, f, "Lock")
              ELSE Return(p, f, "void")
    /\ UNCHANGED <<mu, now, alive>>

\* the counts a breaker can hold: r requests of which f failed
UnitTotals ==
    {t \in ({0, 1, 2, MaxRequests} \X (0..MaxRequests)) :
         t[2] \in {0, t[1] \div 2, (t[1] \div 2) + 1, t[1]} /\ t[2] <= t[1]}

\* currentRate beside those counts: as updateStats leaves it, or, with an empty
\* window, as the constructor (0), ZeroState (1.0) or a rotation (NaN) leave it
UnitRates(t) ==
    IF t[1] = 0 THEN {FZero, FOne, FNaN} ELSE {Ratio(t[2], t[1])}

\* halfOpenInfo after halfOpenInfo.ZeroState, with baseline m
UnitZeroedInfo(m) ==
    [HalfOpenInfoZeroState(ZeroHalfOpenInfo) EXCEPT !.MaxRequest = m]

UnitInfos(state) ==
    IF state = HalfOpen
    THEN {[UnitZeroedInfo(m) EXCEPT !.LastHalfOpenRequest = l,
                                    !.CurrentPercentage = pct,
                                    !.OnFlightRequest = o] :
              l \in {ZeroTime, StartTime},
              pct \in {DefaultHalfOpenPercentages[i] :
                          i \in 1..Len(DefaultHalfOpenPercentages)},
              o \in 0..MaxOnFlight,
              m \in {0, MaxRequests}}
    ELSE {UnitZeroedInfo(m) : m \in {0, MaxRequests}}

\* lastStateChange: just now, one stateStepInterval ago, or all the stages ago
UnitSince(state) ==
    IF state = Closed THEN {StartTime}
    ELSE IF state = Open THEN {StartTime - StateStepInterval, StartTime}
    ELSE {StartTime - Len(DefaultHalfOpenPercentages)
                        * DefaultInterMediatoryStateChangeInterval,
          StartTime}

UnitBreaker(state, t, rate, h, since) ==
    [NewBreaker EXCEPT !.currentState = state,
                       !.halfOpenNil = FALSE,
                       !.halfOpenInfo = h,
                       !.totalRequests = t[1],
                       !.totalFailures = t[2],
                       !.buckets[0] = [requests |-> t[1], failures |-> t[2]],
                       !.lastBucketTime = IF t[1] = 0 THEN ZeroTime ELSE StartTime,
                       !.currentRate = rate,
                       !.lastStateChange = since]

UnitInit ==
    /\ \E state \in States, t \in UnitTotals :
         \E rate \in UnitRates(t), h \in UnitInfos(state),
            since \in UnitSince(state) :
           cb = UnitBreaker(state, t, rate, h, since)
    /\ mu = MuFree
    /\ pc = [p \in Procs |-> "idle"]
    /\ frame = [p \in Procs |-> NoFrame(NewBreaker)]
    /\ ev = Event(0, NoFrame(NewBreaker), "none")
    /\ now = StartTime
    /\ alive = TRUE

UnitStep(p) ==
    \/ CallMakeRequest(p)
    \/ CallAllow(p)
    \/ CallZeroState(p)
    \/ CallStateEval(p)
    \/ CallClosedAllow(p)
    \/ CallHalfOpenAllow(p)
    \/ CallCheckHalfOpenState(p)
    \/ LockAnnounce(p)
    \/ LockAcquire(p)
    \/ RLock(p)
    \/ AllowBody(p)
    \/ ZeroStateRun(p)

UnitNext == (\E p \in UnitProcs : UnitStep(p)) \/ Tick

UnitSpec == UnitInit /\ [][UnitNext]_vars

FairUnitSpec == UnitSpec /\ \A p \in UnitProcs : WF_vars(UnitStep(p))


(***************************************************************************)
(* The revision of the package in which the breaker delegates admission    *)
(* and state evaluation to a StateHandler (stateHadler).  MakeRequest      *)
(* takes the write lock, asks handler.Allow, counts the request, runs f,   *)
(* counts the failure, and unlocks; it calls no method that locks again.   *)
(***************************************************************************)
\* a racing reader adds to the handler's secondsCount up to this value
MaxSeconds == 2

\* how long the clock of this revision runs: longer than the window
MaxIdle == WindowInSeconds + 1

\* halfOpenStage
First == 0
Second == 1
Third == 2
Final == 3

\* NewStateHandler
NewStateHandler(avgTimeStep) ==
    [lastRequestTime |-> ZeroTime,
     curretState |-> Closed,
     currentCount |-> 0,
     reqPerInterval |-> FZero,
     secondsCount |-> 0,
     halfOpenCurrentStage |-> 0,
     halfOpenStage |-> First,
     avgTimeStep |-> IF avgTimeStep < 1 THEN 1 ELSE avgTimeStep,
     currentFlyingTests |-> 0,
     halfOpenTesting |-> FALSE]

\* int(x) of a float64 held as a ratio
FloatToInt(a) == IF a.d = 0 THEN 0 ELSE a.n \div a.d

\* (currentRate - thr) < floatConfidanceDist, with floatConfidanceDist = 0.01
WithinConfidance(currentRate, thr) ==
    LET x == Norm(currentRate)
        y == Norm(thr)
    IN  IF IsNaN(x) \/ IsNaN(y) THEN FALSE
        ELSE IF x.d = 0 THEN x.n < 0 /\ y.d # 0
        ELSE IF y.d = 0 THEN y.n > 0
        ELSE 100 * (x.n * y.d - y.n * x.d) < x.d * y.d

\* stateHadler.halfOpenAllow
stateHadlerHalfOpenAllow(s) ==
    LET expectedValue == FloatToInt(s.reqPerInterval) + 1
        percentile == IF s.halfOpenStage = First THEN (expectedValue * 10) \div 10
                      ELSE IF s.halfOpenStage = Second THEN (expectedValue * 30) \div 10
                      ELSE IF s.halfOpenStage = Third THEN (expectedValue * 50) \div 10
                      ELSE expectedValue
    IN  IF expectedValue < 10
        THEN s.halfOpenTesting /\ s.currentFlyingTests > 1
        ELSE s.currentFlyingTests <= percentile

\* stateHadler.Allow.  elapsed: time.Since(s.lastRequestTime) > s.avgTimeStep
\* as the caller read it.
stateHadlerAllow(s, elapsed, currentRate, thr, n) ==
    LET s1 == IF elapsed
              THEN [s EXCEPT !.secondsCount = @ + 1,
                             !.reqPerInterval = Ratio(s.currentCount, s.secondsCount + 1),
                             !.currentCount = 0]
              ELSE s
        s2 == [s1 EXCEPT !.lastRequestTime = n]
    IN  [handler |-> s2,
         val |-> IF s2.curretState = Closed THEN WithinConfidance(currentRate, thr)
                 ELSE IF s2.curretState = Open THEN FALSE
                 ELSE IF s2.curretState = HalfOpen THEN stateHadlerHalfOpenAllow(s2)
                 ELSE FALSE]

\* stateHadler.StateEval: "implement later"
stateHadlerStateEval(s, currentState) == s

\* NewCircuitBreaker of this revision
NewHandlerCircuitBreaker(windowInSeconds, bucketsPerSecond, threshold, sh) ==
    [windowInSeconds |-> windowInSeconds,
     bucketPerSecond |-> bucketsPerSecond,
     totalRequests |-> 0,
     totalFailures |-> 0,
     lastIndex |-> 0,
     currentState |-> Closed,
     changeBucketDuration |-> 0,
     threshold |-> threshold,
     currentRate |-> FZero,
     lastBucketTime |-> ZeroTime,
     handler |-> sh,
     buckets |-> [i \in 0..(windowInSeconds * bucketsPerSecond - 1) |-> EmptyBucket]]

NewHandlerBreaker ==
    NewHandlerCircuitBreaker(WindowInSeconds, BucketPerSecond, Threshold,
                             NewStateHandler(DefaultInterMediatoryStateChangeInterval))

HandlerInit ==
    /\ cb = NewHandlerBreaker
    /\ mu = MuFree
    /\ pc = [p \in Procs |-> "idle"]
    /\ frame = [p \in Procs |-> NoFrame(NewBreaker)]
    /\ ev = Event(0, NoFrame(NewBreaker), "none")
    /\ now = StartTime
    /\ alive = TRUE

\* time.Since(s.lastRequestTime) > s.avgTimeStep
HandlerElapsed(s, n) == Since(s.lastRequestTime, n) > s.avgTimeStep

\* what a call of this revision keeps of the struct as its guarded region
\* found it: the fields admission reads and the running totals
HandlerSnapshot(c) ==
    [currentRate |-> c.currentRate,
     threshold |-> c.threshold,
     curretState |-> c.handler.curretState,
     lastBucketTime |-> c.lastBucketTime,
     totalRequests |-> c.totalRequests,
     totalFailures |-> c.totalFailures]

\* MakeRequest is called: cb.mu.Lock() comes first.  (pre is filled in when
\* the guarded region is entered, err when f returns.)
HandlerCallMakeRequest(p) ==
    /\ alive /\ pc[p] = "idle"
    /\ Block(p, Frame("MakeRequest", "HandlerMakeRequest",
                      HandlerSnapshot(NewHandlerBreaker), FALSE, NoState, FALSE), "Lock")
    /\ UNCHANGED <<cb, mu, now, alive>>



\* MakeRequest counting the request before it asks handler.Allow
HandlerAdmissionCountsDropped(p) ==
    /\ alive /\ pc[p] = "Admission"
    /\ LET a == stateHadlerAllow(cb.handler, HandlerElapsed(cb.handler, now),
                                 cb.currentRate, cb.threshold, now)
           c0 == [cb EXCEPT !.handler = a.handler]
           f == [frame[p] EXCEPT !.pre = HandlerSnapshot(cb)]
           g == countRequest(c0, now)
       IN  /\ cb' = g.cb
           /\ IF ~a.val
              THEN /\ mu' = Unlock(mu, p)
                   /\ Return(p, f, "ErrRequestDropped")
              ELSE /\ mu' = mu
                   /\ Block(p, invoke([f EXCEPT !.idx = g.idx]), "InOp")
    /\ UNCHANGED <<now, alive>>

\* With the write lock held: handler.Allow; when it refuses, ErrRequestDropped
\* is returned (deferred Unlock); otherwise the request is counted and f is
\* invoked.  pre becomes the struct as the guarded region found it.
HandlerAdmission(p) ==
    /\ alive /\ pc[p] = "Admission"
    /\ LET a == stateHadlerAllow(cb.handler, HandlerElapsed(cb.handler, now),
                                 cb.currentRate, cb.threshold, now)
           c0 == [cb EXCEPT !.handler = a.handler]
           f == [frame[p] EXCEPT !.pre = HandlerSnapshot(cb)]
       IN  IF ~a.val
           THEN /\ cb' = c0
                /\ mu' = Unlock(mu, p)
                /\ Return(p, f, "ErrRequestDropped")
           ELSE LET g == countRequest(c0, now)
                IN  /\ cb' = g.cb
                    /\ mu' = mu
                    /\ Block(p, invoke([f EXCEPT !.idx = g.idx]), "InOp")
    /\ UNCHANGED <<now, alive>>

\* f returns, an error or nil (the write lock was held all the while it ran):
\* the failure is counted, updateStats, handler.StateEval, deferred Unlock,
\* return err.
HandlerOpReturns(p) ==
    /\ alive /\ pc[p] = "InOp"
    /\ \E err \in BOOLEAN :
         LET f == [frame[p] EXCEPT !.err = err]
             c1 == IF err THEN countFailure(cb, f.idx) ELSE cb
             c2 == updateStats(c1)
         IN  /\ cb' = [c2 EXCEPT !.handler =
                                     stateHadlerStateEval(c2.handler, c2.currentState)]
             /\ mu' = Unlock(mu, p)
             /\ Return(p, f, forward(err))
    /\ UNCHANGED <<now, alive>>

\* Allow is called: cb.mu.RLock() comes first
HandlerCallAllow(p) ==
    /\ alive /\ pc[p] = "idle"
    /\ Block(p, Frame("Allow", "HandlerAllow", HandlerSnapshot(NewHandlerBreaker),
                      FALSE, NoState, FALSE), "RLock")
    /\ UNCHANGED <<cb, mu, now, alive>>

\* Allow's body: handler.Allow writes the handler's fields under the read
\* lock.  Two readers inside at once race on them: this one may have read
\* lastRequestTime before the other wrote it, and then finds the step elapsed.
HandlerAllowBody(p) ==
    /\ alive /\ pc[p] = "HandlerAllowBody"
    /\ \E elapsed \in {HandlerElapsed(cb.handler, now)}
                        \cup (IF mu.readers \ {p} # {}
                                 /\ cb.handler.secondsCount < MaxSeconds
                              THEN {TRUE} ELSE {}) :
         LET a == stateHadlerAllow(cb.handler, elapsed, cb.currentRate, cb.threshold, now)
         IN  /\ cb' = [cb EXCEPT !.handler = a.handler]
             /\ mu' = RUnlock(mu, p)
             /\ Return(p, frame[p], Bool(a.val))
    /\ UNCHANGED <<now, alive>>

\* the clock of this revision
HandlerTick ==
    /\ alive /\ now < StartTime + MaxIdle
    /\ now' = now + 1
    /\ UNCHANGED <<cb, mu, pc, frame, ev, alive>>

HandlerStep(p) ==
    \/ HandlerCallMakeRequest(p)
    \/ HandlerCallAllow(p)
    \/ LockAnnounce(p)
    \/ LockAcquire(p)
    \/ RLock(p)
    \/ HandlerAdmission(p)
    \/ HandlerOpReturns(p)
    \/ HandlerAllowBody(p)

HandlerNext == (\E p \in Procs : HandlerStep(p)) \/ HandlerTick

HandlerSpec == HandlerInit /\ [][HandlerNext]_vars

FairHandlerSpec == HandlerSpec /\ \A p \in Procs : WF_vars(HandlerStep(p))


(***************************************************************************)
(* The constructor called with arbitrary arguments, the breaker it returns *)
(* then being the one the goroutines call.                                 *)
(***************************************************************************)
\* arguments tried: window and bucket counts around 0, thresholds on and
\* outside (0, 1)
CtorWindows == {0 - 1, 0, WindowInSeconds}

CtorBuckets == {0, BucketPerSecond}

CtorThresholds == {FZero, Threshold, [n |-> 3, d |-> 2]}

\* NewCircuitBreaker is called.  make([]Bucket, n) with a negative n is a
\* run-time panic; any other arguments yield a breaker.
CallNewCircuitBreaker(p) ==
    /\ alive /\ mu = MuFree
    /\ \A q \in Procs : pc[q] = "idle"
    /\ \E w \in CtorWindows, b \in CtorBuckets, thr \in CtorThresholds :
         LET args == [windowInSeconds |-> w, bucketPerSecond |-> b, threshold |-> thr]
             f == Frame("NewCircuitBreaker", "none", args, FALSE, NoState, FALSE)
         IN  IF w * b < 0
             THEN /\ cb' = cb
                  /\ Panic(p, f)
             ELSE /\ cb' = NewCircuitBreaker(w, b, thr, StateStepInterval)
                  /\ Return(p, f, "breaker")
    /\ UNCHANGED <<mu, now, alive>>

CtorNext == (\E p \in Procs : CallNewCircuitBreaker(p) \/ Step(p)) \/ Tick

CtorSpec == Init /\ [][CtorNext]_vars


(***************************************************************************)
(* Properties.                                                             *)
(***************************************************************************)
\* the last call that returned was `op`, and no call is under way
Returned(op) == ev.op = op /\ \A p \in Procs : pc[p] = "idle"

\* failure ratio of the window the last returned call started from
PreRatio == Ratio(ev.pre.totalFailures, ev.pre.totalRequests)

\* max(1, baseline * stage) in hundredths; for an integer k,
\* k < max(1, ceil(baseline * stage)) iff 100 * k < CapacityH
CapacityH(h) ==
    LET raw == h.MaxRequest * h.CurrentPercentage
    IN  IF raw < 100 THEN 100 ELSE raw

\* goroutine p is inside a MakeRequest call
InMakeRequest(p) == pc[p] # "idle" /\ frame[p].op = "MakeRequest"

\* the breaker is Open and its stateStepInterval has not elapsed
OpenAndFresh ==
    cb.currentState = Open /\ now - cb.lastStateChange < cb.stateStepInterval

OneFailureClosed(c) ==
    /\ c.currentState = Closed
    /\ c.totalRequests = 1
    /\ c.totalFailures = 1
    /\ c.currentRate = Ratio(1, 1)

\* a state evaluation in Closed below min_samples (10) does not open the breaker
NoTripBelowMinSamples ==
    (/\ Returned("StateEval")
     /\ ev.pre.currentState = Closed
     /\ ev.pre.totalRequests < 10)
        => cb.currentState # Open

HalfOpenAdmissionChecked ==
    /\ Returned("halfOpenAllow")
    /\ ev.pre.currentState = HalfOpen
    /\ cb.currentState = HalfOpen

StageAfter(h, pct) ==
    LET at == {i \in 1..(Len(h.HalfOpenStages) - 1) : h.HalfOpenStages[i] = pct}
    IN  IF at = {} THEN 0 ELSE h.HalfOpenStages[(CHOOSE i \in at : TRUE) + 1]

\* the last returned call was a state evaluation in HalfOpen, made when the
\* substage interval had elapsed
HalfOpenEvaluated ==
    /\ Returned("StateEval")
    /\ ev.pre.currentState = HalfOpen
    /\ Since(ev.pre.halfOpenInfo.LastHalfOpenRequest, StartTime)
           >= ev.pre.halfOpenInfo.HalfOpenSubStateChangeInterval
    /\ StartTime - ev.pre.lastStateChange
           >= ev.pre.halfOpenInfo.HalfOpenSubStateChangeInterval

C10_HealthyCallsSucceed ==
    \A p \in Procs :
        (InMakeRequest(p) /\ ~frame[p].err /\ cb.totalFailures = 0)
            ~> ((ev.by = p /\ ev.op = "MakeRequest" /\ ev.ret = "nil")
                \/ cb.totalFailures > 0 \/ ~alive)


\* the last call that returned was a MakeRequest
MakeRequestReturned == ev.op = "MakeRequest"

AdmissionDenied(c) ==
    ~stateHadlerAllow([NewStateHandler(0) EXCEPT !.curretState = c.curretState],
                      FALSE, c.currentRate, c.threshold, ZeroTime).val

\* C12: result forwarding.  An admitted MakeRequest call returns what f
\* returned (nil stays nil, the error is returned as it is), and MakeRequest
\* returns ErrRequestDropped exactly when admission was denied.
C12_ResultForwarded ==
    MakeRequestReturned
        => /\ ev.calls = 1 => ev.ret = (IF ev.err THEN "err" ELSE "nil")
           /\ ev.ret = "ErrRequestDropped" <=> AdmissionDenied(ev.pre)

\* a call was dropped after a recorded failure had raised the rate, while
\* its own f would have succeeded
C12_Witness ==
    /\ MakeRequestReturned
    /\ ev.ret = "ErrRequestDropped"
    /\ AdmissionDenied(ev.pre)
    /\ ev.pre.totalFailures = 1
    /\ ~ev.err


\* C13: the breaker's lock is not held while f runs: a goroutine inside f
\* does not hold the write lock, so another caller can take it.
C13_LockFreeWhileOpRuns ==
    \A p \in Procs : pc[p] = "InOp" => mu.writer # p

\* goroutine p waits for the mutex while holding it itself: RLock or Lock
\* under its own write lock, or Lock under its own read lock
SelfBlocked(p) ==
    \/ pc[p] = "RLock" /\ mu.writer = p
    \/ pc[p] = "Lock" /\ (mu.writer = p \/ p \in mu.readers)
    \/ pc[p] = "LockWait" /\ p \in mu.readers

\* C14: no caller ever waits for the breaker's lock while holding it itself
\* (such a wait never ends, so the call would not terminate).
C14_NoSelfDeadlock ==
    \A p \in Procs : ~SelfBlocked(p)

\* C15: no call on a breaker built by the constructor panics.
C15_NeverPanics ==
    \A p \in Procs : pc[p] # "panicked"


RECURSIVE SumRequests(_, _)
\* the requests of the buckets with index in S
SumRequests(b, S) ==
    IF S = {} THEN 0
    ELSE LET i == CHOOSE j \in S : TRUE
         IN  b[i].requests + SumRequests(b, S \ {i})

RECURSIVE SumFailures(_, _)
\* the failures of the buckets with index in S
SumFailures(b, S) ==
    IF S = {} THEN 0
    ELSE LET i == CHOOSE j \in S : TRUE
         IN  b[i].failures + SumFailures(b, S \ {i})

\* C16: totals invariant.  totalRequests is the sum of the buckets' requests
\* and totalFailures the sum of the buckets' failures.
C16_TotalsAreBucketSums ==
    /\ cb.totalRequests = SumRequests(cb.buckets, DOMAIN cb.buckets)
    /\ cb.totalFailures = SumFailures(cb.buckets, DOMAIN cb.buckets)

\* C17: failures never exceed requests, in the totals and in every bucket.
C17_FailuresWithinRequests ==
    /\ cb.totalFailures <= cb.totalRequests
    /\ \A i \in DOMAIN cb.buckets : cb.buckets[i].failures <= cb.buckets[i].requests

\* a failed call has been recorded: the totals and its bucket hold the failure
C17_Witness ==
    /\ Returned("MakeRequest")
    /\ ev.ret = "err"
    /\ cb.totalFailures = 1
    /\ \E i \in DOMAIN cb.buckets : cb.buckets[i].failures = 1

\* the last returned call recorded an outcome, and the outcome before it was
\* recorded more than the window earlier (lastBucketTime is the time of the
\* latest record)
RecordedAfterIdleWindow ==
    /\ Returned("MakeRequest")
    /\ ev.calls = 1
    /\ ev.pre.lastBucketTime # ZeroTime
    /\ cb.lastBucketTime - ev.pre.lastBucketTime > cb.windowInSeconds

\* C18: monotonic freshness.  Right after a record that follows more than
\* window_seconds without one, totalRequests is 1 and totalFailures is 0 or 1.
C18_FreshAfterIdleWindow ==
    RecordedAfterIdleWindow
        => (cb.totalRequests = 1 /\ cb.totalFailures \in {0, 1})

\* such a record happened, on a window that held an outcome before
C18_Witness ==
    /\ RecordedAfterIdleWindow
    /\ ev.pre.totalRequests = 1
    /\ cb.totalRequests = 1


\* the constraints of a configuration: at least one bucket, 0 < threshold < 1
ValidConfig(a) ==
    /\ a.windowInSeconds >= 1
    /\ a.bucketPerSecond >= 1
    /\ FLess(FZero, a.threshold)
    /\ FLess(a.threshold, FOne)

\* C19: construction validation.  A constructor call with arguments that
\* violate a constraint ends in a validation error, and every breaker that
\* exists has at least one bucket and a threshold inside (0, 1).
C19_ConstructionValidated ==
    /\ (ev.op = "NewCircuitBreaker" /\ ~ValidConfig(ev.pre))
           => ev.ret = "ValidationError"
    /\ Cardinality(DOMAIN cb.buckets) >= 1
    /\ FLess(FZero, cb.threshold)
    /\ FLess(cb.threshold, FOne)


\* the changes of state the design allows
AllowedChanges ==
    {<<Closed, Open>>, <<Open, HalfOpen>>, <<HalfOpen, Closed>>, <<HalfOpen, Open>>}

MaxSlaves == 3

\* bits of the counter: uint64 in the code; 2^64 and 2^4 leave the same
\* remainder on division by 1, 2, 3, 4 and 5
CountBits == 4

CountMod == 2 ^ CountBits

DBProcs == Procs

MasterMethods == {"Exec", "ExecContext", "Begin", "BeginTx"}

SlaveMethods == {"Query", "QueryContext", "QueryRow", "QueryRowContext"}

\* the slaves of the list that are DatabaseX, in the order of the list
AppendX(slaves, X) ==
    SelectSeq(slaves, LAMBDA s : s \in X)

\* NewBalancedDB, X being the slaves whose type implements DatabaseX:
\* db.xpdbs = those slaves; db.pdbs = append([]Database{master}, slaves...).
\* Go's pdbs[i] is pdbs[i + 1] here.
NewBalancedDB(master, slaves, X) ==
    [pdbs |-> <<master>> \o slaves,
     xpdbs |-> AppendX(slaves, X),
     count |-> 0,
     countX |-> 0]

\* return db.pdbs[0]
master(db) == db.pdbs[0 + 1]

\* the offset 1 + ... left out
acquireSlaveNoOffset(db, n) ==
    IF n <= 1
    THEN [db |-> db, val |-> 0]
    ELSE LET c == (db.count + 1) % CountMod
         IN  [db |-> [db EXCEPT !.count = c], val |-> c % (n - 1)]

\* if n <= 1 { return 0 }; return int(1 + (atomic.AddUint64(&db.count, 1) % uint64(n-1)))
acquireSlave(db, n) ==
    IF n <= 1
    THEN [db |-> db, val |-> 0]
    ELSE LET c == (db.count + 1) % CountMod
         IN  [db |-> [db EXCEPT !.count = c], val |-> 1 + (c % (n - 1))]

\* return db.pdbs[db.acquireSlave(len(db.pdbs))]
slave(db) ==
    LET a == acquireSlave(db, Len(db.pdbs))
    IN  [db |-> a.db, val |-> a.db.pdbs[a.val + 1]]

NoDBFrame == [op |-> "none"]

NoQueries == << >>

\* the last MaxSlaves + 1 picks of slave()
Picked(q, t) ==
    LET all == Append(q, t)
    IN  IF Len(all) > MaxSlaves + 1 THEN Tail(all) ELSE all

BalancerInit ==
    /\ \E k \in 0..MaxSlaves :
         cb = NewBalancedDB(0, [i \in 1..k |-> i], 1..k)
    /\ mu = MuFree
    /\ pc = [p \in DBProcs |-> "idle"]
    /\ frame = [p \in DBProcs |-> NoDBFrame]
    /\ ev = [op |-> "none", target |-> 0, queries |-> NoQueries]
    /\ now = StartTime
    /\ alive = TRUE

\* goroutine p calls method m, which calls the same method of db.master()
OnMaster(p, m) ==
    /\ alive /\ pc[p] = "idle"
    /\ LET t == master(cb)
       IN  /\ frame' = [frame EXCEPT ![p] = [op |-> m]]
           /\ ev' = [ev EXCEPT !.op = m, !.target = t]
    /\ pc' = [pc EXCEPT ![p] = "inDB"]
    /\ UNCHANGED <<cb, mu, now, alive>>

\* goroutine p calls method m, which calls the same method of db.slave()
OnSlave(p, m) ==
    /\ alive /\ pc[p] = "idle"
    /\ LET s == slave(cb)
       IN  /\ cb' = s.db
           /\ frame' = [frame EXCEPT ![p] = [op |-> m]]
           /\ ev' = [ev EXCEPT !.op = m, !.target = s.val,
                                !.queries = Picked(ev.queries, s.val)]
    /\ pc' = [pc EXCEPT ![p] = "inDB"]
    /\ UNCHANGED <<mu, now, alive>>

Begin(p) == OnMaster(p, "Begin")

BeginTx(p) == OnMaster(p, "BeginTx")

Exec(p) == OnMaster(p, "Exec")

ExecContext(p) == OnMaster(p, "ExecContext")

Query(p) == OnSlave(p, "Query")

QueryContext(p) == OnSlave(p, "QueryContext")

QueryRow(p) == OnSlave(p, "QueryRow")

QueryRowContext(p) == OnSlave(p, "QueryRowContext")

\* the call of the physical database returns
DBReturn(p) ==
    /\ alive /\ pc[p] = "inDB"
    /\ pc' = [pc EXCEPT ![p] = "idle"]
    /\ frame' = [frame EXCEPT ![p] = NoDBFrame]
    /\ UNCHANGED <<cb, mu, ev, now, alive>>

BalancerNext ==
    \E p \in DBProcs :
        \/ Begin(p) \/ BeginTx(p) \/ Exec(p) \/ ExecContext(p)
        \/ Query(p) \/ QueryContext(p) \/ QueryRow(p) \/ QueryRowContext(p)
        \/ DBReturn(p)

BalancerSpec == BalancerInit /\ [][BalancerNext]_vars


\* number of slaves of the DB
Slaves == Len(cb.pdbs) - 1

\* C22: read/write routing.  On a DB with a master and at least one slave,
\* an Exec, ExecContext, Begin or BeginTx call is sent to physical database 0
\* (the master), and a Query, QueryContext, QueryRow or QueryRowContext call
\* is sent to one of the slaves, never to the master.
C22_ReadWriteRouting ==
    Slaves >= 1 =>
        /\ ev.op \in MasterMethods => ev.target = 0
        /\ ev.op \in SlaveMethods => ev.target \in 1..Slaves

\* a Query has been sent to the second of two slaves while an ExecContext
\* is under way
C22_Witness ==
    /\ Slaves = 2
    /\ ev.op = "Query" /\ ev.target = 2
    /\ \E p \in DBProcs : pc[p] = "inDB" /\ frame[p].op = "ExecContext"


\* C23: round-robin over slaves.  With k >= 2 slaves the picks of slave(),
\* in the order they are made, repeat with period k and any k consecutive
\* picks are k different slaves; calls sent to the master in between do not
\* move the rotation.
C23_RoundRobin ==
    Slaves >= 2 =>
        \A i, j \in 1..Len(ev.queries) :
            i < j =>
                /\ j - i < Slaves => ev.queries[i] # ev.queries[j]
                /\ j - i = Slaves => ev.queries[i] = ev.queries[j]



\* a step in which MakeRequest counts a request (getBucketIndex, then the
\* two increments) on a window that has been started
RecordStep ==
    /\ \E p \in Procs : pc[p] = "Admission" /\ pc'[p] = "InOp"
    /\ cb.lastBucketTime # ZeroTime

\* number of buckets of the ring
RingSize == Cardinality(DOMAIN cb.buckets)

\* C24: rotation step.  When the head moves forward by one slot, what the
\* newly entered slot held before is subtracted from the totals and nothing
\* else is (the bucket that was head stays counted), the slot is zeroed
\* before the request is counted in it, and lastBucketTime is the instant of
\* the rotation.
C24_RotationStep ==
    [][RecordStep /\ cb'.lastIndex = (cb.lastIndex + 1) % RingSize
           => LET evicted == cb.buckets[cb'.lastIndex]
              IN  /\ cb'.totalRequests = cb.totalRequests - evicted.requests + 1
                  /\ cb'.totalFailures = cb.totalFailures - evicted.failures
                  /\ cb'.buckets[cb'.lastIndex] = [requests |-> 1, failures |-> 0]
                  /\ cb'.lastBucketTime = now]_vars


\* bucket_duration is 1 s / bucketPerSecond and the clock counts whole
\* seconds: less than one bucket_duration has passed iff none has
WithinBucket == now - cb.lastBucketTime = 0

\* C25: no rotation inside a bucket.  A request counted less than one
\* bucket_duration after the head bucket was started lands in that bucket:
\* lastIndex, lastBucketTime and the other buckets stay as they were.
C25_NoRotationInsideBucket ==
    [][RecordStep /\ WithinBucket
           => /\ cb'.lastIndex = cb.lastIndex
              /\ cb'.lastBucketTime = cb.lastBucketTime
              /\ \A i \in DOMAIN cb.buckets :
                     i # cb.lastIndex => cb'.buckets[i] = cb.buckets[i]]_vars


\* whole bucket_durations passed since the head bucket was started
SlotsElapsed == (now - cb.lastBucketTime) * cb.bucketPerSecond

\* C26: multi-slot advance.  When k whole bucket_durations (1 <= k <= number
\* of buckets) have passed since the head bucket was started, counting a
\* request moves the head forward by k slots.
C26_MultiSlotAdvance ==
    [][RecordStep /\ SlotsElapsed >= 1 /\ SlotsElapsed <= RingSize
           => cb'.lastIndex = (cb.lastIndex + SlotsElapsed) % RingSize]_vars



\* the buckets of c other than bucket i are those of d
OtherBucketsSame(c, d, i) ==
    \A j \in DOMAIN c.buckets : j # i => c.buckets[j] = d.buckets[j]

\* C27: record semantics.  An admitted call is recorded once: when it is
\* admitted, the bucket that getBucketIndex has made the head and
\* totalRequests grow by exactly 1 and no failure is counted; when its f has
\* returned, that same bucket, still the head, and totalFailures grow
\* by 1 if f returned an error and by 0 if not, and no request is counted.
C27_RecordSemantics ==
    [][\A p \in Procs :
         /\ pc[p] = "Admission" /\ pc'[p] = "InOp"
              => LET g == getBucketIndex([cb EXCEPT !.handler = cb'.handler], now)
                     a == g.cb
                     h == cb'.lastIndex
                 IN  /\ h = g.idx /\ frame'[p].idx = h
                     /\ cb'.totalRequests = a.totalRequests + 1
                     /\ cb'.buckets[h].requests = a.buckets[h].requests + 1
                     /\ cb'.totalFailures = a.totalFailures
                     /\ cb'.buckets[h].failures = a.buckets[h].failures
                     /\ OtherBucketsSame(cb', a, h)
         /\ pc[p] = "InOp" /\ pc'[p] = "idle"
              => LET d == IF ev'.ret = "err" THEN 1 ELSE 0
                     h == cb.lastIndex
                 IN  /\ frame[p].idx = h /\ cb'.lastIndex = h
                     /\ cb'.totalFailures = cb.totalFailures + d
                     /\ cb'.buckets[h].failures = cb.buckets[h].failures + d
                     /\ cb'.totalRequests = cb.totalRequests
                     /\ cb'.buckets[h].requests = cb.buckets[h].requests
                     /\ OtherBucketsSame(cb', cb, h)]_vars

\* a call whose f failed has come back, recorded in the head bucket, after
\* one whose f returned nil was recorded in the other bucket
C27_Witness ==
    /\ MakeRequestReturned /\ ev.ret = "err"
    /\ cb.buckets[cb.lastIndex] = [requests |-> 1, failures |-> 1]
    /\ \E i \in DOMAIN cb.buckets :
           i # cb.lastIndex /\ cb.buckets[i] = [requests |-> 1, failures |-> 0]



StageAdvanced ==
    /\ Returned("StateEval")
    /\ ev.pre.currentState = HalfOpen
    /\ \/ cb.currentState = Closed
       \/ cb.halfOpenInfo.CurrentPercentage # ev.pre.halfOpenInfo.CurrentPercentage

StageIndex(h, pct) ==
    LET at == {i \in 1..Len(h.HalfOpenStages) : h.HalfOpenStages[i] = pct}
    IN  IF at = {} THEN 0 ELSE CHOOSE i \in at : \A j \in at : i <= j

RecordedRatio(c) ==
    IF c.totalRequests = 0 THEN FZero ELSE Ratio(c.totalFailures, c.totalRequests)

C38_TotalsNeverNegative ==
    /\ cb.totalRequests >= 0
    /\ cb.totalFailures >= 0
    /\ \A i \in DOMAIN cb.buckets :
           cb.buckets[i].requests >= 0 /\ cb.buckets[i].failures >= 0

\* a rotation has taken a recorded request out of the totals: the request
\* being made is the only one counted while another bucket still holds one
C38_Witness ==
    /\ \E p \in Procs : pc[p] = "InOp"
    /\ cb.totalRequests = 1
    /\ \E i \in DOMAIN cb.buckets :
           i # cb.lastIndex /\ cb.buckets[i].requests = 1



(***************************************************************************)
(* The methods of DB that leave count alone: Get, Select and Close.  Get   *)
(* and Select go to db.slaveX(), which indexes xpdbs with the counter      *)
(* countX; an index outside the slice is a run-time panic, which ends the  *)
(* program.  Close closes the master and then hands every physical         *)
(* database to helper.Scatter.  ev.closes counts the Close calls each      *)
(* physical database has received, ev.ret is what the last Close returned. *)
(***************************************************************************)
SlaveXMethods == {"Get", "Select"}

\* if n <= 1 { return 0 }; return int(1 + (atomic.AddUint64(&db.countX, 1) % uint64(n-1)))
acquireSlaveX(db, n) ==
    IF n <= 1
    THEN [db |-> db, val |-> 0]
    ELSE LET c == (db.countX + 1) % CountMod
         IN  [db |-> [db EXCEPT !.countX = c], val |-> 1 + (c % (n - 1))]

\* return db.xpdbs[db.acquireSlaveX(len(db.xpdbs))] ; panic: the index is
\* not one of the slice
slaveX(db) ==
    LET a == acquireSlaveX(db, Len(db.xpdbs))
    IN  IF a.val + 1 \in DOMAIN a.db.xpdbs
        THEN [db |-> a.db, val |-> a.db.xpdbs[a.val + 1], panic |-> FALSE]
        ELSE [db |-> a.db, val |-> 0, panic |-> TRUE]

NoCloses(db) == [i \in 1..Len(db.pdbs) |-> 0]

DBInit ==
    /\ \E k \in 0..MaxSlaves : \E X \in SUBSET (1..k) :
         /\ cb = NewBalancedDB(0, [i \in 1..k |-> i], X)
         /\ ev = [op |-> "none", target |-> 0, queries |-> NoQueries,
                  closes |-> NoCloses(cb), ret |-> "none"]
    /\ mu = MuFree
    /\ pc = [p \in DBProcs |-> "idle"]
    /\ frame = [p \in DBProcs |-> NoDBFrame]
    /\ now = StartTime
    /\ alive = TRUE

\* goroutine p calls method m, which calls the same method of db.slaveX()
OnSlaveX(p, m) ==
    /\ alive /\ pc[p] = "idle"
    /\ LET s == slaveX(cb)
       IN  /\ cb' = s.db
           /\ frame' = [frame EXCEPT ![p] = [op |-> m]]
           /\ IF s.panic
              THEN /\ pc' = [pc EXCEPT ![p] = "panicked"]
                   /\ alive' = FALSE
                   /\ UNCHANGED ev
              ELSE /\ pc' = [pc EXCEPT ![p] = "inDB"]
                   /\ ev' = [ev EXCEPT !.op = m, !.target = s.val]
                   /\ UNCHANGED alive
    /\ UNCHANGED <<mu, now>>

Get(p) == OnSlaveX(p, "Get")

Select(p) == OnSlaveX(p, "Select")

\* one more Close call for each physical database of S (positions in pdbs)
Closed1(closes, S) ==
    [i \in DOMAIN closes |-> IF i \in S THEN closes[i] + 1 ELSE closes[i]]

\* Close is called on a DB not closed before: db.master().Close(), which
\* fails or not; when it fails its error is returned
Close(p) ==
    /\ alive /\ pc[p] = "idle"
    /\ \A q \in DBProcs : frame[q].op # "Close"
    /\ \A i \in DOMAIN ev.closes : ev.closes[i] = 0
    /\ \E err \in BOOLEAN :
         /\ ev' = [ev EXCEPT !.op = "Close", !.target = master(cb),
                             !.closes = Closed1(ev.closes, {0 + 1}),
                             !.ret = IF err THEN "errMaster" ELSE "none"]
         /\ IF err
            THEN UNCHANGED <<pc, frame>>
            ELSE /\ pc' = [pc EXCEPT ![p] = "Scatter"]
                 /\ frame' = [frame EXCEPT ![p] = [op |-> "Close"]]
    /\ UNCHANGED <<cb, mu, now, alive>>

\* helper.Scatter(len(db.pdbs), ...): one goroutine for each i < len(db.pdbs)
\* calls db.pdbs[i].Close(); g.Wait() returns when all of them have, with the
\* first error if any failed
CloseScatter(p) ==
    /\ alive /\ pc[p] = "Scatter"
    /\ \E err \in BOOLEAN :
         ev' = [ev EXCEPT !.op = "Close",
                          !.closes = Closed1(ev.closes, DOMAIN cb.pdbs),
                          !.ret = IF err THEN "errScatter" ELSE "nil"]
    /\ pc' = [pc EXCEPT ![p] = "idle"]
    /\ frame' = [frame EXCEPT ![p] = NoDBFrame]
    /\ UNCHANGED <<cb, mu, now, alive>>

DBNext ==
    \E p \in DBProcs :
        \/ Get(p) \/ Select(p)
        \/ Close(p) \/ CloseScatter(p)
        \/ DBReturn(p)

DBSpec == DBInit /\ [][DBNext]_vars


\* C39: slave selection never indexes out of range.  Whatever the number of
\* slaves and of slaves that are DatabaseX, a Query-family call is sent to
\* the master when there is no slave and to one of the slaves otherwise, a
\* Get or Select call is sent to one of xpdbs, and none of them panics.
C39_SelectionInRange ==
    /\ ev.op \in SlaveMethods
           => ev.target \in (IF Slaves = 0 THEN {0} ELSE 1..Slaves)
    /\ ev.op \in SlaveXMethods
           => \E i \in DOMAIN cb.xpdbs : cb.xpdbs[i] = ev.target
    /\ \A p \in DBProcs :
           frame[p].op \in SlaveMethods \cup SlaveXMethods => pc[p] # "panicked"


\* a Close call has returned
CloseReturned == ev.op = "Close" /\ ev.ret # "none"

\* C40: Close of the balanced DB.  When Close has returned, either the
\* master's Close failed, that error was returned and no slave was closed, or
\* every physical database has received exactly one Close call.
C40_CloseOncePerDatabase ==
    CloseReturned
        => IF ev.ret = "errMaster"
           THEN \A i \in DOMAIN ev.closes : i # 0 + 1 => ev.closes[i] = 0
           ELSE \A i \in DOMAIN ev.closes : ev.closes[i] = 1

=============================================================================
